---- MODULE Spec2Model ----
(***************************************************************************)
(* State-machine model of the BitAuction chaincode (Hyperledger Fabric).   *)
(*                                                                         *)
(* The auction contract is package "auction" of bitAuction/auction         *)
(* (auction.go, auctionQueries.go, utils); CloseAuction, which that        *)
(* package does not define, is the one of chaincode-go/smart-contract      *)
(* (same package name, same Auction record).  The ledger is the world      *)
(* state of the channel: auction records under the auction id, bid         *)
(* placeholders under the composite key ("bid", auctionID, txID) and       *)
(* revealed bids under ("fullbid", auctionID, txID).                       *)
(*                                                                         *)
(* Instants are integers; time.Now() is the variable now.  A timestamp     *)
(* string is a record [fmt, utc]: fmt names the textual layout, utc the    *)
(* instant it denotes; time.Parse succeeds only on the layout it is given. *)
(***************************************************************************)
EXTENDS Integers, Sequences, FiniteSets, TLC

(* ------------------------------ bounds --------------------------------- *)
\* number of distinct transaction ids the ledger hands out
MaxTx == 2
\* the clock runs over 0..MaxTime
MaxTime == 2

(* --------------------------- value domains ------------------------------ *)
TestAuctionID == "testAuction123"
AuctionIDs == {"auction1", TestAuctionID}
\* the auction the callers of Spec address: the one TestWriteData writes into
ActiveIDs == {TestAuctionID}
Principals == {"user1", "user2"}
TxIDs == 1..MaxTx
Times == 0..MaxTime
\* prices a caller may pass to Bid (any int is accepted there)
Prices == {0, 100, 300}

\* ctx.GetClientIdentity().GetMSPID()
GetMSPID(p) == IF p = "user1" THEN "Org1MSP" ELSE "Org2MSP"

Nil == [nil |-> TRUE]

\* textual layouts
RFC3339Nano == "RFC3339Nano"
GoStringLayout == "2006-01-02 15:04:05.999999999 -0700 MST"
\* time.Time.Format / String of an instant, and a malformed text
FormatTime(layout, t) == [fmt |-> layout, utc |-> t]
Garbage == [fmt |-> "garbage", utc |-> 0]
\* time.Parse(layout, s): (t, err)
ParseTime(layout, s) ==
    IF s.fmt = layout THEN [ok |-> TRUE, t |-> s.utc] ELSE [ok |-> FALSE, t |-> 0]

\* the instant "2025-06-25 19:59:59.31560409 +0000 UTC" on the model's clock
StubInstant == 1
\* time limits a caller may pass to CreateAuction: a well-formed one and a malformed one
Deadlines == {1}
TimelimitInputs == {FormatTime(RFC3339Nano, t) : t \in Deadlines} \cup {Garbage}

(* --------------------------- time oracle domains ------------------------ *)
\* number of GetTimeNtp invocations that may be in progress at once
MaxCalls == 2
\* number of configured NTP servers the model queries
MaxServers == 2

CallSlots == 1..MaxCalls
\* the list NTPs of GetTimeNtp, by index
NTPs == 1..MaxServers
\* request ids (txID) GetTimeNtp is called with
RequestIDs == {"tx001", "tx002"}
\* the instants time.Now().Add(response.ClockOffset) may give a query
NtpTimes == {1, 2}

Idle == [pc |-> "idle"]
NoResponse == [id |-> "", value |-> Nil, err |-> "", queried |-> FALSE]
\* a queryNTP goroutine that has not been started
NoTask == [pc |-> "none", ok |-> FALSE, time |-> 0]

VARIABLES
    auctions,      \* auctionID -> Auction record, or Nil (GetState gives nil)
    policy,        \* auctionID -> org set as endorser (state validation parameter), or ""
    placeholders,  \* <<auctionID, txID>> -> [price] stored under the "bid" key, or Nil
    fullbids,      \* <<auctionID, txID>> -> FullBid under the "fullbid" key, or Nil
    usedTx,        \* transaction ids already handed out
    now,           \* time.Now().UTC()
    result,        \* the last transaction: operation, auction id, error ("" for none), value returned
    endSeen,       \* history: auctionID -> number of FullBids the EndAuction of the current record scanned, or -1
    pending,       \* transactions endorsed (simulated) and not yet committed; used by SpecOCC only
    \* the timeoracle chaincode (SpecOracle)
    timeState,     \* its world state: request id -> timestamp text, or Nil
    calls,         \* call slot -> the GetTimeNtp invocation running there, or Idle
    lastCall,      \* the last invocation that finished: id, value returned, error, ...
    writes,        \* history: request id -> number of committed writes of its key
    answers,       \* history: the <<id, text>> returned by the invocations that committed
    failures,      \* history: the ids of invocations that failed for want of a time source
    \* one GetTimeNtp invocation past its GetState, step by step (SpecFanOut)
    fanId,         \* its txID
    fanPc,         \* where it stands: "spawn", "wait", "collect", "select", "returned"
    wg,            \* the counter of the sync.WaitGroup of ntpQueryLoop
    tasks,         \* server -> its queryNTP goroutine: pc and the ntpResult it built
    resultCh,      \* the buffered channel: the results sent and not yet received
    times,         \* the slice times of ntpQueryLoop, TimeList of GetTimeNtp
    failedServers, \* the slice failedServers of ntpQueryLoop
    fanRet,        \* what the invocation returned and put: [value, err, put], or Nil
    placedBy       \* history (SpecBidder): transaction id -> the principal whose Bid it was, or ""

ledger == <<auctions, policy, placeholders, fullbids, usedTx, now, result, endSeen>>
oracleVars == <<timeState, calls, lastCall, writes, answers, failures>>
fanVars == <<fanId, fanPc, wg, tasks, resultCh, times, failedServers, fanRet>>
histVars == <<placedBy>>
vars == <<ledger, pending, oracleVars, fanVars, histVars>>

BidKeys == AuctionIDs \X TxIDs

Ok == ""
\* what a transaction function returns: ret is the string Bid returns (the
\* transaction id, "" on error), err the error
Result(op, id, tx, caller, err) ==
    [op |-> op, id |-> id, err |-> err, ret |-> IF op = "Bid" /\ err = Ok THEN tx ELSE 0]

Init ==
    /\ auctions = [a \in AuctionIDs |-> Nil]
    /\ policy = [a \in AuctionIDs |-> ""]
    /\ placeholders = [k \in BidKeys |-> Nil]
    /\ fullbids = [k \in BidKeys |-> Nil]
    /\ usedTx = {}
    /\ now = 0
    /\ result = Result("init", "", 0, "", Ok)
    /\ endSeen = [a \in AuctionIDs |-> -1]
    /\ pending = {}
    /\ timeState = [id \in RequestIDs |-> Nil]
    /\ calls = [k \in CallSlots |-> Idle]
    /\ lastCall = NoResponse
    /\ writes = [id \in RequestIDs |-> 0]
    /\ answers = {}
    /\ failures = {}
    /\ fanId = "tx001"
    /\ fanPc = "spawn"
    /\ wg = 0
    /\ tasks = [s \in NTPs |-> NoTask]
    /\ resultCh = <<>>
    /\ times = <<>>
    /\ failedServers = <<>>
    /\ fanRet = Nil
    /\ placedBy = [tx \in TxIDs |-> ""]

(* ------------------------------ queries --------------------------------- *)
\* QueryAuction: the stored record, or the error "auction does not exist"
QueryAuction(id) == auctions[id]

\* isAuctionOpenForBidding with the time limit checked before the status
isAuctionOpenForBidding_TimeFirst(auction) ==
    IF auction.timelimit < now THEN "auction has already ended"
    ELSE IF auction.status # "open" THEN "auction is not open for bidding"
    ELSE Ok

\* isAuctionOpenForBidding(auction): the error, or Ok
isAuctionOpenForBidding(auction) ==
    IF auction.status # "open" THEN "auction is not open for bidding"
    ELSE IF auction.timelimit < now THEN "auction has already ended"
    ELSE Ok

\* the transaction ids with a FullBid under ("fullbid", id, _)
FullBidTxs(fb, id) == {tx \in TxIDs : fb[<<id, tx>>] # Nil}

\* the elements of a finite set of integers in ascending order
RECURSIVE SortedSeq(_)
SortedSeq(S) ==
    IF S = {} THEN <<>>
    ELSE LET m == CHOOSE x \in S : \A y \in S : x <= y
         IN <<m>> \o SortedSeq(S \ {m})

\* QueryBids: GetStateByPartialCompositeKey("fullbid", {id}) yields in key order
QueryBids(fb, id) ==
    LET keys == SortedSeq(FullBidTxs(fb, id))
    IN [i \in 1..Len(keys) |-> fb[<<id, keys[i]>>]]

\* isHigherBid without the timestamp comparison on equal prices
isHigherBid_NoTieBreak(bid, highest, winnerTime) == bid.price > highest.price

\* isHigherBid(bid, highest, winnerTime); highest is never nil where GetHb calls it
isHigherBid(bid, highest, winnerTime) ==
    \/ bid.price > highest.price
    \/ bid.price = highest.price /\ bid.timestamp < winnerTime

\* the loop of GetHb from index i on, with the running highest
RECURSIVE GetHbLoop(_, _, _)
GetHbLoop(bids, i, highest) ==
    IF i > Len(bids) THEN highest
    ELSE GetHbLoop(bids, i + 1,
                   IF isHigherBid(bids[i], highest, highest.timestamp)
                   THEN bids[i] ELSE highest)

\* GetHb over a list of bids: Nil when there is none
GetHbOf(bids) == IF Len(bids) = 0 THEN Nil ELSE GetHbLoop(bids, 1, bids[1])

\* GetHb(ctx, auctionID)
GetHb(fb, id) == GetHbOf(QueryBids(fb, id))

(* ---------------------------- transactions ------------------------------ *)
Fail(op, id, tx, caller, err) ==
    /\ result' = Result(op, id, tx, caller, err)
    /\ UNCHANGED <<auctions, policy, placeholders, fullbids, usedTx, now, endSeen>>

\* an Auction record whose seller is the organization of the caller
NewAuction_OrgAsSeller(id, clientID, clientOrgID, t) ==
    [auctionID |-> id, seller |-> clientOrgID, orgs |-> <<clientOrgID>>,
     winner |-> "", price |-> 0, status |-> "open", timelimit |-> t, bids |-> <<>>]

\* the Auction record CreateAuction builds
NewAuction(id, clientID, clientOrgID, t) ==
    [auctionID |-> id, seller |-> clientID, orgs |-> <<clientOrgID>>,
     winner |-> "", price |-> 0, status |-> "open", timelimit |-> t, bids |-> <<>>]

CreateAuction(caller, id, timelimit) ==
    LET t == ParseTime(RFC3339Nano, timelimit) IN
    IF ~t.ok THEN Fail("CreateAuction", id, 0, caller, "invalid datetime format")
    ELSE
        /\ auctions' = [auctions EXCEPT ![id] = NewAuction(id, caller, GetMSPID(caller), t.t)]
        /\ policy' = [policy EXCEPT ![id] = GetMSPID(caller)]
        /\ endSeen' = [endSeen EXCEPT ![id] = -1]
        /\ result' = Result("CreateAuction", id, 0, caller, Ok)
        /\ UNCHANGED <<placeholders, fullbids, usedTx, now>>

\* the world state after a call that returned an error: the peer endorses
\* nothing, and what the simulation had put is part of no transaction
DiscardWrites(committed, written) == committed

\* the failing CreateAuction on a store that applies PutState at once: the
\* record written before the error stays
CreateAuctionEPFails_KeepsRecord(caller, id, timelimit) ==
    LET t == ParseTime(RFC3339Nano, timelimit) IN
    /\ t.ok
    /\ auctions' = [auctions EXCEPT ![id] = NewAuction(id, caller, GetMSPID(caller), t.t)]
    /\ result' = Result("CreateAuction", id, 0, caller,
                        "failed setting state based endorsement for new organization")
    /\ UNCHANGED <<policy, placeholders, fullbids, usedTx, now, endSeen>>

\* CreateAuction whose setAssetStateBasedEndorsement returns an error, after
\* the PutState of the auction record
CreateAuctionEPFails(caller, id, timelimit) ==
    LET t == ParseTime(RFC3339Nano, timelimit) IN
    /\ t.ok
    /\ auctions' = DiscardWrites(auctions,
                       [auctions EXCEPT ![id] = NewAuction(id, caller, GetMSPID(caller), t.t)])
    /\ result' = Result("CreateAuction", id, 0, caller,
                        "failed setting state based endorsement for new organization")
    /\ UNCHANGED <<policy, placeholders, fullbids, usedTx, now, endSeen>>

\* Bid: txID is the id of the transaction, never used before (the caller's
\* identity is not read)
Bid(id, price, txID) ==
    LET auction == QueryAuction(id) IN
    IF auction = Nil THEN Fail("Bid", id, 0, "", "failed to get auction: auction does not exist")
    ELSE IF isAuctionOpenForBidding(auction) # Ok
    THEN Fail("Bid", id, 0, "", isAuctionOpenForBidding(auction))
    ELSE
        /\ txID \in TxIDs \ usedTx
        /\ usedTx' = usedTx \cup {txID}
        /\ placeholders' = [placeholders EXCEPT ![<<id, txID>>] = [price |-> price]]
        /\ result' = Result("Bid", id, txID, "", Ok)
        /\ UNCHANGED <<auctions, policy, fullbids, now, endSeen>>

\* Bid whose PutState returns an error: err is assigned and not looked at,
\* the transaction id is returned with a nil error; nothing is in the write set
BidPutFails(id, price, txID) ==
    LET auction == QueryAuction(id) IN
    /\ auction # Nil
    /\ isAuctionOpenForBidding(auction) = Ok
    /\ txID \in TxIDs \ usedTx
    /\ usedTx' = usedTx \cup {txID}
    /\ result' = Result("Bid", id, txID, "", Ok)
    /\ UNCHANGED <<auctions, policy, placeholders, fullbids, now, endSeen>>

\* RecordTimeFromOracle(ctx, txID): the fixed string
RecordTimeFromOracle(txID) == FormatTime(GoStringLayout, StubInstant)

\* shuffleTimestamps(timestamps, encodedValue)[0] of a one-element list
shuffleTimestamps(timestamps, encodedValue) == timestamps[1]

\* SubmitBid without a price check
validPrice_Unchecked(price) == TRUE

\* the price check of SubmitBid accepting a price of zero
validPrice_AllowZero(price) == price >= 0

\* the price check of SubmitBid: price <= 0 is "invalid bid amount"
validPrice(price) == price > 0

\* the FullBid SubmitBid builds
NewFullBid(price, org, bidder, timestamp) ==
    [price |-> price, org |-> org, bidder |-> bidder, valid |-> TRUE, timestamp |-> timestamp]

\* the placeholder looked up by transaction id alone, whatever its auction
GetBidState_AnyAuction(id, txID) ==
    IF \E a \in AuctionIDs : placeholders[<<a, txID>>] # Nil
    THEN placeholders[<<CHOOSE a \in AuctionIDs : placeholders[<<a, txID>>] # Nil, txID>>]
    ELSE Nil

\* GetState(bidKey), bidKey the composite key ("bid", auctionID, txID)
GetBidState(id, txID) == placeholders[<<id, txID>>]

\* the error SubmitBid returns on the ledger as it stands, or Ok
SubmitBidErr(caller, id, txID) ==
    LET auction == QueryAuction(id)
        priceBytes == GetBidState(id, txID)
        body == RecordTimeFromOracle(txID)
        ts == ParseTime(GoStringLayout, shuffleTimestamps(<<body>>, txID))
    IN
    IF auction = Nil THEN "failed to get auction: auction does not exist"
    ELSE IF isAuctionOpenForBidding(auction) # Ok THEN isAuctionOpenForBidding(auction)
    ELSE IF priceBytes = Nil THEN "bid not found in public state"
    ELSE IF ~validPrice(priceBytes.price) THEN "invalid bid amount"
    ELSE IF ~ts.ok THEN "failed to parse timestamp"
    ELSE Ok

\* the FullBid a successful SubmitBid puts under ("fullbid", id, txID)
SubmitBidValue(caller, id, txID) ==
    LET body == RecordTimeFromOracle(txID)
        ts == ParseTime(GoStringLayout, shuffleTimestamps(<<body>>, txID))
    IN NewFullBid(GetBidState(id, txID).price, GetMSPID(caller), caller, ts.t)

SubmitBid(caller, id, txID) ==
    IF SubmitBidErr(caller, id, txID) # Ok
    THEN Fail("SubmitBid", id, txID, caller, SubmitBidErr(caller, id, txID))
    ELSE
        /\ fullbids' = [fullbids EXCEPT ![<<id, txID>>] = SubmitBidValue(caller, id, txID)]
        /\ result' = Result("SubmitBid", id, txID, caller, Ok)
        /\ UNCHANGED <<auctions, policy, placeholders, usedTx, now, endSeen>>

\* EndedAuction that marks the auction ended and forgets the winner
EndedAuction_NoWinner(auction, HighestBid) == [auction EXCEPT !.status = "ended"]

\* the record EndAuction stores, given the highest bid (or Nil)
EndedAuction(auction, HighestBid) ==
    IF HighestBid = Nil
    THEN [auction EXCEPT !.winner = "", !.price = 0, !.status = "ended"]
    ELSE [auction EXCEPT !.winner = HighestBid.bidder, !.price = HighestBid.price,
                         !.status = "ended"]

\* EndAuctionErr without the comparison of the caller with the stored seller
EndAuctionErr_AnyCaller(caller, id) ==
    LET auction == QueryAuction(id) IN
    IF auction = Nil THEN "failed to get auction from public state auction does not exist"
    ELSE IF auction.timelimit > now THEN "Cannot end auction before time limit has passed"
    ELSE IF auction.status = "ended" THEN "auction has already been ended"
    ELSE Ok

\* the error EndAuction returns on the ledger as it stands, or Ok
EndAuctionErr(caller, id) ==
    LET auction == QueryAuction(id) IN
    IF auction = Nil THEN "failed to get auction from public state auction does not exist"
    ELSE IF auction.seller # caller THEN "Auction can only be ended by the seller"
    ELSE IF auction.timelimit > now THEN "Cannot end auction before time limit has passed"
    ELSE IF auction.status = "ended" THEN "auction has already been ended"
    ELSE Ok

\* the record a successful EndAuction puts under the auction id
EndAuctionValue(id) == EndedAuction(QueryAuction(id), GetHb(fullbids, id))

EndAuction(caller, id) ==
    IF EndAuctionErr(caller, id) # Ok
    THEN Fail("EndAuction", id, 0, caller, EndAuctionErr(caller, id))
    ELSE
        /\ auctions' = [auctions EXCEPT ![id] = EndAuctionValue(id)]
        /\ endSeen' = [endSeen EXCEPT ![id] = Len(QueryBids(fullbids, id))]
        /\ result' = Result("EndAuction", id, 0, caller, Ok)
        /\ UNCHANGED <<policy, placeholders, fullbids, usedTx, now>>

\* a close that also settles the auction, on the price the record holds
ClosedAuction_Settles(auction) == [auction EXCEPT !.status = "closed", !.winner = auction.seller]

\* the record CloseAuction stores: auction.Status = "closed", the rest as read
ClosedAuction(auction) == [auction EXCEPT !.status = "closed"]

\* CloseAuctionErr refusing only an auction that is already closed
CloseAuctionErr_ClosedOnly(caller, id) ==
    LET auction == QueryAuction(id) IN
    IF auction = Nil THEN "failed to get auction from public state auction does not exist"
    ELSE IF auction.seller # caller THEN "auction can only be closed by seller"
    ELSE IF auction.status = "closed" THEN "cannot close auction that is not open"
    ELSE Ok

\* the error CloseAuction returns on the ledger as it stands, or Ok
CloseAuctionErr(caller, id) ==
    LET auction == QueryAuction(id) IN
    IF auction = Nil THEN "failed to get auction from public state auction does not exist"
    ELSE IF auction.seller # caller THEN "auction can only be closed by seller"
    ELSE IF auction.status # "open" THEN "cannot close auction that is not open"
    ELSE Ok

\* CloseAuction (chaincode-go/smart-contract)
CloseAuction(caller, id) ==
    IF CloseAuctionErr(caller, id) # Ok
    THEN Fail("CloseAuction", id, 0, caller, CloseAuctionErr(caller, id))
    ELSE
        /\ auctions' = [auctions EXCEPT ![id] = ClosedAuction(QueryAuction(id))]
        /\ result' = Result("CloseAuction", id, 0, caller, Ok)
        /\ UNCHANGED <<policy, placeholders, fullbids, usedTx, now, endSeen>>

\* program constants of TestWriteData
TestPrice == 100

\* TestWriteData: an exported transaction function of the contract
TestWriteData(txID) ==
    /\ txID \in TxIDs \ usedTx
    /\ usedTx' = usedTx \cup {txID}
    /\ fullbids' = [fullbids EXCEPT ![<<TestAuctionID, txID>>] =
                        NewFullBid(TestPrice, "testOrg", "testBidder", now)]
    /\ result' = Result("TestWriteData", TestAuctionID, txID, "", Ok)
    /\ UNCHANGED <<auctions, policy, placeholders, now, endSeen>>

\* the peer's clock advances
Tick ==
    /\ now < MaxTime
    /\ now' = now + 1
    /\ result' = Result("Tick", "", 0, "", Ok)
    /\ UNCHANGED <<auctions, policy, placeholders, fullbids, usedTx, endSeen>>

DoCreateAuction ==
    /\ \E c \in Principals, id \in ActiveIDs, tl \in TimelimitInputs : CreateAuction(c, id, tl)
    /\ UNCHANGED <<pending, oracleVars, fanVars, histVars>>
DoCreateAuctionEPFails ==
    /\ \E c \in Principals, id \in ActiveIDs, tl \in TimelimitInputs : CreateAuctionEPFails(c, id, tl)
    /\ UNCHANGED <<pending, oracleVars, fanVars, histVars>>
DoBid ==
    /\ \E id \in ActiveIDs, p \in Prices, tx \in TxIDs : Bid(id, p, tx)
    /\ UNCHANGED <<pending, oracleVars, fanVars, histVars>>
DoSubmitBid ==
    /\ \E c \in Principals, id \in ActiveIDs, tx \in TxIDs : SubmitBid(c, id, tx)
    /\ UNCHANGED <<pending, oracleVars, fanVars, histVars>>
DoEndAuction ==
    /\ \E c \in Principals, id \in ActiveIDs : EndAuction(c, id)
    /\ UNCHANGED <<pending, oracleVars, fanVars, histVars>>
DoCloseAuction ==
    /\ \E c \in Principals, id \in ActiveIDs : CloseAuction(c, id)
    /\ UNCHANGED <<pending, oracleVars, fanVars, histVars>>
DoTestWriteData ==
    /\ \E tx \in TxIDs : TestWriteData(tx)
    /\ UNCHANGED <<pending, oracleVars, fanVars, histVars>>
DoTick == Tick /\ UNCHANGED <<pending, oracleVars, fanVars, histVars>>

\* each call runs as one transaction, executed and committed in one step
Next ==
    \/ DoCreateAuction
    \/ DoCreateAuctionEPFails
    \/ DoBid
    \/ DoSubmitBid
    \/ DoEndAuction
    \/ DoCloseAuction
    \/ DoTestWriteData
    \/ DoTick

Spec == Init /\ [][Next]_vars

(* --------------------- bids over two auctions --------------------------- *)
\* the calls address every auction id: a transaction id names a placeholder
\* of one auction and may be passed to SubmitBid with the id of the other
\* the principal who creates the auctions, and the prices bid
AbSellers == {"user1"}
AbPrices == {0, TestPrice}

AbCreateAuction ==
    /\ \E c \in AbSellers, id \in AuctionIDs, tl \in TimelimitInputs : CreateAuction(c, id, tl)
    /\ UNCHANGED <<pending, oracleVars, fanVars, histVars>>
AbBid ==
    /\ \E id \in AuctionIDs, p \in AbPrices, tx \in TxIDs : Bid(id, p, tx)
    /\ UNCHANGED <<pending, oracleVars, fanVars, histVars>>
AbSubmitBid ==
    /\ \E c \in Principals, id \in AuctionIDs, tx \in TxIDs : SubmitBid(c, id, tx)
    /\ UNCHANGED <<pending, oracleVars, fanVars, histVars>>

NextAB ==
    \/ AbCreateAuction
    \/ AbBid
    \/ AbSubmitBid
    \/ DoTick

SpecAB == Init /\ [][NextAB]_vars

(* ------------- endorse, order, validate: concurrent calls --------------- *)
(* A call is simulated on the committed world state (endorsement), which    *)
(* records the keys it read and the value it would write, and is committed  *)
(* later.  At commit the ledger validates the read set: the transaction is  *)
(* invalid (MVCC_READ_CONFLICT, nothing written) when a key it read, or a   *)
(* key inside a range it scanned, was written after the simulation.         *)

\* number of endorsed transactions that may wait for their commit
MaxPending == 2

AuctionKey(id) == <<"auction", id>>
BidKey(id, txID) == <<"bid", id, txID>>
FullBidKey(id, txID) == <<"fullbid", id, txID>>
\* the scan GetStateByPartialCompositeKey("fullbid", {id})
FullBidRange(id) == <<"fullbid*", id>>

\* the keys SubmitBid reads: GetState(auctionID), GetState(bidKey)
SubmitBidReads(id, txID) == {AuctionKey(id), BidKey(id, txID)}

\* EndAuction reading the auction record only (a scan the ledger does not re-validate)
EndAuctionReads_NoScan(id) == {AuctionKey(id)}

\* the keys EndAuction reads: GetState(auctionID) and the scan of QueryBids
EndAuctionReads(id) == {AuctionKey(id), FullBidRange(id)}

\* a write of key written changes what a read of key read saw
Touches(read, written) ==
    \/ read = written
    \/ read[1] = "fullbid*" /\ written[1] = "fullbid" /\ read[2] = written[2]

\* the pending transactions after a commit that wrote key written: those that
\* read it will be refused, and what they would have written no longer matters
MarkStale(txs, written) ==
    {IF \E r \in t.reads : Touches(r, written) THEN [t EXCEPT !.stale = TRUE, !.value = Nil, !.seen = 0] ELSE t : t \in txs}

Endorsed(op, id, txID, reads, value, seen) ==
    [op |-> op, id |-> id, tx |-> txID, reads |-> reads, value |-> value,
     seen |-> seen, stale |-> FALSE]

\* a call whose simulation returns an error is not submitted for ordering:
\* only successful simulations become transactions
EndorseSubmitBid(caller, id, txID) ==
    /\ SubmitBidErr(caller, id, txID) = Ok
    /\ Cardinality(pending) < MaxPending
    /\ pending' = pending \cup {Endorsed("SubmitBid", id, txID, SubmitBidReads(id, txID),
                                          SubmitBidValue(caller, id, txID), 0)}
    /\ pending' # pending
    /\ UNCHANGED ledger

EndorseEndAuction(caller, id) ==
    /\ EndAuctionErr(caller, id) = Ok
    /\ Cardinality(pending) < MaxPending
    /\ pending' = pending \cup {Endorsed("EndAuction", id, 0, EndAuctionReads(id),
                                          EndAuctionValue(id), Len(QueryBids(fullbids, id)))}
    /\ pending' # pending
    /\ UNCHANGED ledger

\* validation and commit of an endorsed transaction
Commit(t) ==
    IF t.stale
    THEN /\ pending' = pending \ {t}
         /\ result' = Result(t.op, t.id, t.tx, "", "MVCC_READ_CONFLICT")
         /\ UNCHANGED <<auctions, policy, placeholders, fullbids, usedTx, now, endSeen>>
    ELSE IF t.op = "SubmitBid"
    THEN /\ fullbids' = [fullbids EXCEPT ![<<t.id, t.tx>>] = t.value]
         /\ pending' = MarkStale(pending \ {t}, FullBidKey(t.id, t.tx))
         /\ result' = Result("SubmitBid", t.id, t.tx, "", Ok)
         /\ UNCHANGED <<auctions, policy, placeholders, usedTx, now, endSeen>>
    ELSE /\ auctions' = [auctions EXCEPT ![t.id] = t.value]
         /\ endSeen' = [endSeen EXCEPT ![t.id] = t.seen]
         /\ pending' = MarkStale(pending \ {t}, AuctionKey(t.id))
         /\ result' = Result("EndAuction", t.id, t.tx, "", Ok)
         /\ UNCHANGED <<policy, placeholders, fullbids, usedTx, now>>

\* the seller of the auction the interleavings are about
OccSellers == {"user1"}

\* CreateAuction and Bid, endorsed and committed with nothing in between
OccCreateAuction ==
    \E c \in OccSellers, id \in ActiveIDs, tl \in TimelimitInputs :
        /\ CreateAuction(c, id, tl)
        /\ result'.err = Ok
        /\ pending' = MarkStale(pending, AuctionKey(id))
        /\ UNCHANGED <<oracleVars, fanVars, histVars>>
OccBid ==
    \E id \in ActiveIDs, p \in Prices \ {0}, tx \in TxIDs :
        /\ Bid(id, p, tx)
        /\ result'.err = Ok
        /\ pending' = MarkStale(pending, BidKey(id, tx))
        /\ UNCHANGED <<oracleVars, fanVars, histVars>>
OccEndorseSubmitBid ==
    /\ \E c \in Principals, id \in ActiveIDs, tx \in TxIDs : EndorseSubmitBid(c, id, tx)
    /\ UNCHANGED <<oracleVars, fanVars, histVars>>
OccEndorseEndAuction ==
    /\ \E c \in Principals, id \in ActiveIDs : EndorseEndAuction(c, id)
    /\ UNCHANGED <<oracleVars, fanVars, histVars>>
OccCommit ==
    /\ \E t \in pending : Commit(t)
    /\ UNCHANGED <<oracleVars, fanVars, histVars>>

\* the interleavings of SubmitBid and EndAuction transactions
NextOCC ==
    \/ OccCreateAuction
    \/ OccBid
    \/ OccEndorseSubmitBid
    \/ OccEndorseEndAuction
    \/ OccCommit
    \/ DoTick

SpecOCC == Init /\ [][NextOCC]_vars

(* ------------------------ who reveals whose bid ------------------------- *)
\* Bid called by a principal: the contract does not read the caller's
\* identity; placedBy keeps it for the record
BidBy ==
    /\ \E c \in Principals, id \in ActiveIDs, tx \in TxIDs :
          /\ Bid(id, TestPrice, tx)
          /\ placedBy' = IF result'.err = Ok THEN [placedBy EXCEPT ![tx] = c] ELSE placedBy
    /\ UNCHANGED <<pending, oracleVars, fanVars>>

DoBidPutFails ==
    /\ \E id \in ActiveIDs, tx \in TxIDs : BidPutFails(id, TestPrice, tx)
    /\ UNCHANGED <<pending, oracleVars, fanVars, histVars>>

NextBidder ==
    \/ DoCreateAuction
    \/ BidBy
    \/ DoBidPutFails
    \/ DoSubmitBid
    \/ DoEndAuction
    \/ DoTick

SpecBidder == Init /\ [][NextBidder]_vars

(* ----------------------------- read-only calls -------------------------- *)
(* QueryAuction, QueryBid, GetHb, GetAllOpenAuctions, GetAllAuctionsBySeller *)
(* run on a peer: they read the world state and return a value.             *)

\* shim.GetMSPID(): the organization of the peer that runs the call
PeerMSPIDs == {"Org1MSP", "Org2MSP"}

\* verifyClientOrgMatchesPeerOrg(ctx): the error, or Ok
verifyClientOrgMatchesPeerOrg(caller, peer) ==
    IF GetMSPID(caller) # peer
    THEN "client is not authorized to read or write private data from an org peer"
    ELSE Ok

\* getCollectionName(ctx)
getCollectionName(caller) == <<"_implicit_org_", GetMSPID(caller)>>

\* GetPrivateData(collection, key): no function of the contract calls
\* PutPrivateData, the collections hold nothing
GetPrivateData(collection, key) == Nil

\* ParseClientID(idStr): the ids of the model carry no "x509::" prefix
ParseClientID(idStr) == idStr

\* QueryBid answering from the public FullBid, with no check of the caller
QueryBidResult_PublicUnchecked(caller, peer, id, txID) ==
    [bid |-> fullbids[<<id, txID>>],
     err |-> IF fullbids[<<id, txID>>] = Nil THEN "bid does not exist" ELSE Ok]

\* QueryBid(ctx, auctionID, txID): the bid and the error returned
QueryBidResult(caller, peer, id, txID) ==
    LET bidJSON == GetPrivateData(getCollectionName(caller), BidKey(id, txID)) IN
    IF verifyClientOrgMatchesPeerOrg(caller, peer) # Ok
    THEN [bid |-> Nil, err |-> "failed to get implicit collection name"]
    ELSE IF bidJSON = Nil THEN [bid |-> Nil, err |-> "bid does not exist"]
    ELSE IF bidJSON.bidder # caller THEN [bid |-> Nil, err |-> "Permission denied"]
    ELSE [bid |-> bidJSON, err |-> Ok]

\* GetAllOpenAuctions: the records stored under simple keys whose status is open
GetAllOpenAuctions ==
    {auctions[a] : a \in {b \in AuctionIDs : auctions[b] # Nil /\ auctions[b].status = "open"}}

\* GetAllAuctionsBySeller(sellerID)
GetAllAuctionsBySeller(sellerID) ==
    {auctions[a] : a \in {b \in AuctionIDs : auctions[b] # Nil
                                              /\ ParseClientID(auctions[b].seller) = sellerID}}

\* a read-only call returns val and err to its caller
Query(op, id, caller, peer, txID, val, err) ==
    /\ result' = [op |-> op, id |-> id, err |-> err, ret |-> 0,
                  caller |-> caller, peer |-> peer, tx |-> txID, val |-> val]
    /\ UNCHANGED <<auctions, policy, placeholders, fullbids, usedTx, now, endSeen>>

QCreateAuction ==
    /\ \E c \in Principals, id \in ActiveIDs, t \in Deadlines :
          CreateAuction(c, id, FormatTime(RFC3339Nano, t))
    /\ UNCHANGED <<pending, oracleVars, fanVars, histVars>>
QBid ==
    /\ \E id \in ActiveIDs, tx \in TxIDs : Bid(id, TestPrice, tx)
    /\ UNCHANGED <<pending, oracleVars, fanVars, histVars>>
DoQueryAuction ==
    /\ \E id \in ActiveIDs :
          Query("QueryAuction", id, "", "", 0, QueryAuction(id),
                IF QueryAuction(id) = Nil THEN "auction does not exist" ELSE Ok)
    /\ UNCHANGED <<pending, oracleVars, fanVars, histVars>>
DoQueryBid ==
    /\ \E c \in Principals, peer \in PeerMSPIDs, id \in ActiveIDs, tx \in TxIDs :
          Query("QueryBid", id, c, peer, tx,
                QueryBidResult(c, peer, id, tx).bid, QueryBidResult(c, peer, id, tx).err)
    /\ UNCHANGED <<pending, oracleVars, fanVars, histVars>>
DoGetHb ==
    /\ \E id \in ActiveIDs : Query("GetHb", id, "", "", 0, GetHb(fullbids, id), Ok)
    /\ UNCHANGED <<pending, oracleVars, fanVars, histVars>>
DoGetAllOpenAuctions ==
    /\ Query("GetAllOpenAuctions", "", "", "", 0, GetAllOpenAuctions, Ok)
    /\ UNCHANGED <<pending, oracleVars, fanVars, histVars>>
DoGetAllAuctionsBySeller ==
    /\ \E sellerID \in Principals :
          Query("GetAllAuctionsBySeller", "", sellerID, "", 0, GetAllAuctionsBySeller(sellerID), Ok)
    /\ UNCHANGED <<pending, oracleVars, fanVars, histVars>>

NextQuery ==
    \/ QCreateAuction
    \/ QBid
    \/ DoSubmitBid
    \/ DoEndAuction
    \/ DoTick
    \/ DoQueryAuction
    \/ DoQueryBid
    \/ DoGetHb
    \/ DoGetAllOpenAuctions
    \/ DoGetAllAuctionsBySeller

SpecQuery == Init /\ [][NextQuery]_vars

(* ------------ the contract of chaincode-go/smart-contract --------------- *)
(* The package the deployment script installs.  Its CreateAuction and       *)
(* CloseAuction are the ones above; its Bid, SubmitBid and EndAuction       *)
(* differ: revealed bids are appended to the Bids list of the auction       *)
(* record, and the timestamp comes from the timeoracle chaincode.           *)

\* length the Bids list of an auction may reach
MaxBids == 2

\* responses of InvokeChaincode("timeoracle", GetTimeNtp, txID): a failure, or
\* status 200 with the text of the oracle's time
OracleDown == [fmt |-> "error", utc |-> 0]
OracleResponses == {OracleDown, FormatTime(GoStringLayout, now)}

\* Bid of chaincode-go: the placeholder is written whatever the auction
CgBid(id, price, txID) ==
    /\ txID \in TxIDs \ usedTx
    /\ usedTx' = usedTx \cup {txID}
    /\ placeholders' = [placeholders EXCEPT ![<<id, txID>>] = [price |-> price]]
    /\ result' = Result("Bid", id, txID, "", Ok)
    /\ UNCHANGED <<auctions, policy, fullbids, now, endSeen>>

\* the error SubmitBid of chaincode-go returns, or Ok; response is the oracle's
CgSubmitBidErr(caller, id, txID, response) ==
    LET auction == QueryAuction(id)
        priceBytes == placeholders[<<id, txID>>]
        ts == ParseTime(GoStringLayout, shuffleTimestamps(<<response>>, txID))
    IN
    IF auction = Nil THEN "failed to get auction: auction does not exist"
    ELSE IF auction.status # "open" THEN "auction is not open for bidding"
    ELSE IF priceBytes = Nil THEN "bid not found in public state"
    ELSE IF ~validPrice(priceBytes.price) THEN "invalid bid amount"
    ELSE IF response = OracleDown THEN "failed to read timestamp from state"
    ELSE IF ~ts.ok THEN "failed to parse timestamp"
    ELSE Ok

\* SubmitBid of chaincode-go: the bid is appended to auction.Bids
CgSubmitBid(caller, id, txID, response) ==
    IF CgSubmitBidErr(caller, id, txID, response) # Ok
    THEN Fail("SubmitBid", id, txID, caller, CgSubmitBidErr(caller, id, txID, response))
    ELSE
        LET auction == QueryAuction(id)
            ts == ParseTime(GoStringLayout, shuffleTimestamps(<<response>>, txID))
            bid == NewFullBid(placeholders[<<id, txID>>].price, GetMSPID(caller), caller, ts.t)
        IN
        /\ Len(auction.bids) < MaxBids
        /\ auctions' = [auctions EXCEPT ![id] = [auction EXCEPT !.bids = Append(auction.bids, bid)]]
        /\ result' = Result("SubmitBid", id, txID, caller, Ok)
        /\ UNCHANGED <<policy, placeholders, fullbids, usedTx, now, endSeen>>

\* the loop of EndAuction of chaincode-go over auction.Bids from index i on
RECURSIVE CgWinnerLoop(_, _)
CgWinnerLoop(auction, i) ==
    IF i > Len(auction.bids) THEN auction
    ELSE CgWinnerLoop(IF auction.bids[i].price > auction.price
                      THEN [auction EXCEPT !.winner = auction.bids[i].bidder,
                                           !.price = auction.bids[i].price]
                      ELSE auction,
                      i + 1)

\* EndAuction of chaincode-go
CgEndAuction(caller, id) ==
    LET auction == QueryAuction(id) IN
    IF auction = Nil
    THEN Fail("EndAuction", id, 0, caller, "failed to get auction from public state auction does not exist")
    ELSE IF auction.seller # caller
    THEN Fail("EndAuction", id, 0, caller, "auction can only be ended by seller")
    ELSE IF Len(auction.bids) = 0
    THEN Fail("EndAuction", id, 0, caller, "no bids have been placed, cannot end auction")
    ELSE
        /\ auctions' = [auctions EXCEPT ![id] = [CgWinnerLoop(auction, 1) EXCEPT !.status = "ended"]]
        /\ endSeen' = [endSeen EXCEPT ![id] = Len(auction.bids)]
        /\ result' = Result("EndAuction", id, 0, caller, Ok)
        /\ UNCHANGED <<policy, placeholders, fullbids, usedTx, now>>

DoCgBid ==
    /\ \E id \in ActiveIDs, p \in Prices, tx \in TxIDs : CgBid(id, p, tx)
    /\ UNCHANGED <<pending, oracleVars, fanVars, histVars>>
DoCgSubmitBid ==
    /\ \E c \in Principals, id \in ActiveIDs, tx \in TxIDs, r \in OracleResponses :
          CgSubmitBid(c, id, tx, r)
    /\ UNCHANGED <<pending, oracleVars, fanVars, histVars>>
DoCgEndAuction ==
    /\ \E c \in Principals, id \in ActiveIDs : CgEndAuction(c, id)
    /\ UNCHANGED <<pending, oracleVars, fanVars, histVars>>

NextCG ==
    \/ DoCreateAuction
    \/ DoCgBid
    \/ DoCgSubmitBid
    \/ DoCgEndAuction
    \/ DoCloseAuction
    \/ DoTick

SpecCG == Init /\ [][NextCG]_vars

(* ----------------------- the timeoracle chaincode ----------------------- *)
(* GetTimeNtp(txID) runs as a transaction of the timeoracle chaincode: the  *)
(* invocation is simulated (GetState, the NTP queries, PutState into its    *)
(* write set) and committed later; the ledger refuses at commit a           *)
(* transaction that read a key written since.                               *)

NtpFailed == "Failed to get response from NTP servers, see log file"

\* ntpQueryLoop reporting success with a zero time when no server answered
ntpQueryLoop_ZeroTime(up, t) ==
    LET servers == SortedSeq(up)
    IN IF up = {} THEN [times |-> <<0>>, ok |-> TRUE]
       ELSE [times |-> [i \in 1..Len(servers) |-> t[servers[i]]], ok |-> TRUE]

\* ntpQueryLoop(NTPs, ntpOpts): up are the servers whose query succeeds, t the
\* time each gives; the times of the successful ones, and whether there is any
ntpQueryLoop(up, t) ==
    LET servers == SortedSeq(up)
    IN [times |-> [i \in 1..Len(servers) |-> t[servers[i]]], ok |-> Cardinality(up) > 0]

\* GetTimeNtp not reading the key (no GetState before the PutState)
GetTimeNtpReads_None(id) == {}

\* the keys GetTimeNtp reads: stub.GetState(txID)
GetTimeNtpReads(id) == {id}

\* the invocations in progress once key written is committed: those that read
\* it are out of date
StaleCalls(cs, written) ==
    [k \in CallSlots |->
        IF cs[k] # Idle /\ written \in GetTimeNtpReads(cs[k].id)
        THEN [cs[k] EXCEPT !.stale = TRUE] ELSE cs[k]]

\* GetTimeNtp that never looks at the stored timestamp
GetTimeNtpStart_NoCache(k, id) ==
    /\ calls[k] = Idle
    /\ calls' = [calls EXCEPT ![k] = [pc |-> "query", id |-> id, value |-> Nil, wrote |-> FALSE,
                                      queried |-> FALSE, heard |-> FALSE, stale |-> FALSE]]
    /\ UNCHANGED <<timeState, lastCall, writes, answers, failures>>

\* GetTimeNtp, lines 172-181: the stored timestamp is returned when there is one
GetTimeNtpStart(k, id) ==
    LET existing == timeState[id] IN
    /\ calls[k] = Idle
    /\ calls' = [calls EXCEPT ![k] =
                    IF existing # Nil
                    THEN [pc |-> "endorsed", id |-> id, value |-> existing, wrote |-> FALSE,
                          queried |-> FALSE, heard |-> FALSE, stale |-> FALSE]
                    ELSE [pc |-> "query", id |-> id, value |-> Nil, wrote |-> FALSE,
                          queried |-> FALSE, heard |-> FALSE, stale |-> FALSE]]
    /\ UNCHANGED <<timeState, lastCall, writes, answers, failures>>

\* GetTimeNtp, lines 183-219: the queries, the choice rand.Intn(len(TimeList))
\* (index i) and PutState into the write set, or the error
GetTimeNtpQuery(k, up, t, i) ==
    LET c == calls[k]
        r == ntpQueryLoop(up, t) IN
    /\ c # Idle /\ c.pc = "query"
    /\ IF r.ok
       THEN /\ i \in 1..Len(r.times)
            /\ calls' = [calls EXCEPT ![k] =
                            [c EXCEPT !.pc = "endorsed", !.wrote = TRUE, !.queried = TRUE,
                                      !.heard = (up # {}),
                                      !.value = FormatTime(GoStringLayout, r.times[i])]]
            /\ UNCHANGED <<timeState, lastCall, writes, answers, failures>>
       ELSE /\ i = 1
            /\ calls' = [calls EXCEPT ![k] = Idle]
            /\ lastCall' = [id |-> c.id, value |-> Nil, err |-> NtpFailed, queried |-> TRUE]
            /\ failures' = failures \cup {c.id}
            /\ UNCHANGED <<timeState, writes, answers>>

\* validation and commit of the transaction of an invocation
CommitCall(k) ==
    LET c == calls[k] IN
    /\ c # Idle /\ c.pc = "endorsed"
    /\ IF c.stale
       THEN /\ calls' = [calls EXCEPT ![k] = Idle]
            /\ lastCall' = [id |-> c.id, value |-> c.value, err |-> "MVCC_READ_CONFLICT",
                            queried |-> c.queried]
            /\ UNCHANGED <<timeState, writes, answers, failures>>
       ELSE /\ lastCall' = [id |-> c.id, value |-> c.value, err |-> Ok, queried |-> c.queried]
            /\ answers' = answers \cup {<<c.id, c.value>>}
            /\ IF c.wrote
               THEN /\ timeState' = [timeState EXCEPT ![c.id] = c.value]
                    /\ writes' = [writes EXCEPT ![c.id] = @ + 1]
                    /\ calls' = StaleCalls([calls EXCEPT ![k] = Idle], c.id)
               ELSE /\ calls' = [calls EXCEPT ![k] = Idle]
                    /\ UNCHANGED <<timeState, writes>>
            /\ UNCHANGED failures

\* a new invocation takes the first free slot
DoGetTimeNtpStart ==
    /\ \E k \in CallSlots, id \in RequestIDs :
          /\ \A j \in 1..(k - 1) : calls[j] # Idle
          /\ GetTimeNtpStart(k, id)
    /\ UNCHANGED <<ledger, pending, fanVars, histVars>>
DoGetTimeNtpQuery ==
    /\ \E k \in CallSlots, up \in SUBSET NTPs :
          \E t \in [up -> NtpTimes], i \in 1..(IF up = {} THEN 1 ELSE Cardinality(up)) :
              GetTimeNtpQuery(k, up, t, i)
    /\ UNCHANGED <<ledger, pending, fanVars, histVars>>
DoCommitCall ==
    /\ \E k \in CallSlots : CommitCall(k)
    /\ UNCHANGED <<ledger, pending, fanVars, histVars>>

NextOracle ==
    \/ DoGetTimeNtpStart
    \/ DoGetTimeNtpQuery
    \/ DoCommitCall

SpecOracle == Init /\ [][NextOracle]_vars

(* ------------------ GetTimeNtp past its GetState, step by step ---------- *)
(* ntpQueryLoop starts one goroutine per server, waits on the WaitGroup,    *)
(* closes the channel and collects what it holds; GetTimeNtp then picks     *)
(* TimeList[rand.Intn(len(TimeList))].  math/rand is the process-wide       *)
(* generator: the index is any value of the range.                          *)

\* wg.Wait() returning as soon as one result is in the channel
wgWait_FirstResult == Len(resultCh) > 0

\* wg.Wait() returns when the counter is zero
wgWait == wg = 0

\* a channel with room for one result less than there are servers
resultChCap_OneShort == Cardinality(NTPs) - 1

\* resultCh := make(chan ntpResult, len(NTPs)): the capacity of the channel
resultChCap == Cardinality(NTPs)

\* the loop "for _, serverStr := range NTPs": wg.Add(1); go queryNTP(...)
StartTask(s) ==
    /\ fanPc = "spawn"
    /\ tasks[s].pc = "none"
    /\ \A r \in NTPs : r < s => tasks[r].pc # "none"
    /\ wg' = wg + 1
    /\ tasks' = [tasks EXCEPT ![s].pc = "running"]
    /\ fanPc' = IF \A r \in NTPs : r <= s THEN "wait" ELSE "spawn"
    /\ UNCHANGED <<fanId, resultCh, times, failedServers, fanRet>>

\* queryNTP up to "resultCh <- result": ok is FALSE for a failure (bad server
\* string, failed or timed-out query, invalid response), else t is the time;
\* the send waits while the channel is full
queryNTP(s, ok, t) ==
    /\ tasks[s].pc = "running"
    /\ Len(resultCh) < resultChCap
    /\ tasks' = [tasks EXCEPT ![s] = [pc |-> "sent", ok |-> ok, time |-> IF ok THEN t ELSE 0]]
    /\ resultCh' = Append(resultCh, [server |-> s, ok |-> ok, time |-> IF ok THEN t ELSE 0])
    /\ UNCHANGED <<fanId, fanPc, wg, times, failedServers, fanRet>>

\* the deferred wg.Done() of queryNTP
wgDone(s) ==
    /\ tasks[s].pc = "sent"
    /\ tasks' = [tasks EXCEPT ![s].pc = "done"]
    /\ wg' = wg - 1
    /\ UNCHANGED <<fanId, fanPc, resultCh, times, failedServers, fanRet>>

\* wg.Wait(); close(resultCh)
WaitAll ==
    /\ fanPc = "wait"
    /\ wgWait
    /\ fanPc' = "collect"
    /\ UNCHANGED <<fanId, wg, tasks, resultCh, times, failedServers, fanRet>>

\* one turn of "for result := range resultCh", or its end on the drained channel
Collect ==
    /\ fanPc = "collect"
    /\ IF resultCh = <<>>
       THEN /\ fanPc' = "select"
            /\ UNCHANGED <<resultCh, times, failedServers>>
       ELSE /\ resultCh' = Tail(resultCh)
            /\ times' = IF Head(resultCh).ok THEN Append(times, Head(resultCh).time) ELSE times
            /\ failedServers' = IF Head(resultCh).ok THEN failedServers
                                ELSE Append(failedServers, Head(resultCh).server)
            /\ UNCHANGED fanPc
    /\ UNCHANGED <<fanId, wg, tasks, fanRet>>

\* the time of the local clock taken in place of a result of the servers
accurateTime_LocalClock(TimeList, i) == 0

\* accurateTime := TimeList[rand.Intn(len(TimeList))]; i is rand.Intn(...) + 1
accurateTime(TimeList, i) == TimeList[i]

\* GetTimeNtp after ntpQueryLoop: the chosen time as text, put under txID
\* (put: the key and value of PutState) and returned, or the error
SelectTime(i) ==
    /\ fanPc = "select"
    /\ IF Len(times) > 0
       THEN /\ i \in 1..Len(times)
            /\ fanRet' = [value |-> FormatTime(GoStringLayout, accurateTime(times, i)), err |-> Ok,
                          put |-> <<fanId, FormatTime(GoStringLayout, accurateTime(times, i))>>]
       ELSE /\ i = 1
            /\ fanRet' = [value |-> Nil, err |-> NtpFailed, put |-> Nil]
    /\ fanPc' = "returned"
    /\ UNCHANGED <<fanId, wg, tasks, resultCh, times, failedServers>>

\* the next invocation of GetTimeNtp that finds no stored timestamp
NewInvocation(id) ==
    /\ fanPc = "returned"
    /\ fanId' = id
    /\ fanPc' = "spawn"
    /\ wg' = 0
    /\ tasks' = [s \in NTPs |-> NoTask]
    /\ resultCh' = <<>>
    /\ times' = <<>>
    /\ failedServers' = <<>>
    /\ fanRet' = Nil

DoStartTask ==
    /\ \E s \in NTPs : StartTask(s)
    /\ UNCHANGED <<ledger, pending, oracleVars, histVars>>
DoQueryNTP ==
    /\ \E s \in NTPs, ok \in BOOLEAN, t \in NtpTimes : queryNTP(s, ok, t)
    /\ UNCHANGED <<ledger, pending, oracleVars, histVars>>
DoWgDone ==
    /\ \E s \in NTPs : wgDone(s)
    /\ UNCHANGED <<ledger, pending, oracleVars, histVars>>
DoWaitAll == WaitAll /\ UNCHANGED <<ledger, pending, oracleVars, histVars>>
DoCollect == Collect /\ UNCHANGED <<ledger, pending, oracleVars, histVars>>
DoSelectTime ==
    /\ \E i \in 1..MaxServers : SelectTime(i)
    /\ UNCHANGED <<ledger, pending, oracleVars, histVars>>
DoNewInvocation ==
    /\ \E id \in RequestIDs : NewInvocation(id)
    /\ UNCHANGED <<ledger, pending, oracleVars, histVars>>

NextFanOut ==
    \/ DoStartTask
    \/ DoQueryNTP
    \/ DoWgDone
    \/ DoWaitAll
    \/ DoCollect
    \/ DoSelectTime
    \/ DoNewInvocation

SpecFanOut == Init /\ [][NextFanOut]_vars

\* the Go scheduler runs every goroutine that can take a step, and a query
\* ends by its answer, its error or its timeout; whether GetTimeNtp is invoked
\* again is up to the callers
SpecFanOutFair ==
    /\ SpecFanOut
    /\ WF_vars(DoStartTask) /\ WF_vars(DoQueryNTP) /\ WF_vars(DoWgDone)
    /\ WF_vars(DoWaitAll) /\ WF_vars(DoCollect) /\ WF_vars(DoSelectTime)

(* ------------------------------- claims --------------------------------- *)
StoredBids(id) == {fullbids[<<id, tx>>] : tx \in FullBidTxs(fullbids, id)}

\* the status moves the specification allows
Forward(s, t) ==
    \/ s = t
    \/ s = "open" /\ t \in {"closed", "ended"}
    \/ s = "closed" /\ t = "ended"

\* C1: the stored status of an auction only moves open -> closed, closed -> ended
\* or open -> ended, whatever operation runs.
C1_StatusOnlyAdvances ==
    [][\A id \in AuctionIDs :
          auctions[id] # Nil =>
              /\ auctions'[id] # Nil
              /\ Forward(auctions[id].status, auctions'[id].status)]_vars

\* C2: once an auction is ended its winner and price never change again.
C2_EndedWinnerImmutable ==
    [][\A id \in AuctionIDs :
          (auctions[id] # Nil /\ auctions[id].status = "ended") =>
              /\ auctions'[id] # Nil
              /\ auctions'[id].winner = auctions[id].winner
              /\ auctions'[id].price = auctions[id].price]_vars

\* C3: with at least one FullBid stored, GetHb returns a stored bid of maximum
\* price, and of earliest timestamp among the bids of that price.
C3_GetHbIsMaxPriceEarliest ==
    \A id \in AuctionIDs :
        StoredBids(id) # {} =>
            LET hb == GetHb(fullbids, id) IN
            /\ hb \in StoredBids(id)
            /\ \A b \in StoredBids(id) :
                  /\ b.price <= hb.price
                  /\ b.price = hb.price => hb.timestamp <= b.timestamp

\* two bids tie on the price and the one later in the scan is the earlier one;
\* the seller has ended the auction on them
C3_Witness ==
    /\ result.op = "EndAuction" /\ result.err = Ok
    /\ \E t1, t2 \in TxIDs :
          /\ t1 < t2
          /\ fullbids[<<result.id, t1>>] # Nil /\ fullbids[<<result.id, t2>>] # Nil
          /\ fullbids[<<result.id, t1>>].price = fullbids[<<result.id, t2>>].price
          /\ fullbids[<<result.id, t2>>].timestamp < fullbids[<<result.id, t1>>].timestamp
          /\ GetHb(fullbids, result.id) = fullbids[<<result.id, t2>>]

\* C4: a successful EndAuction leaves status ended and (winner, price) those of
\* the bid GetHb selects, or ("", 0) when no FullBid is stored.
C4_EndAuctionRecordsHighest ==
    (result.op = "EndAuction" /\ result.err = Ok) =>
        LET a == auctions[result.id]
            hb == GetHb(fullbids, result.id) IN
        /\ a.status = "ended"
        /\ IF StoredBids(result.id) = {}
           THEN a.winner = "" /\ a.price = 0
           ELSE a.winner = hb.bidder /\ a.price = hb.price

\* an auction ended on two bids of different prices made by different bidders
C4_Witness ==
    /\ result.op = "EndAuction" /\ result.err = Ok
    /\ \E b1, b2 \in StoredBids(result.id) :
          /\ b1.price < b2.price /\ b1.bidder # b2.bidder
          /\ auctions[result.id].winner = b2.bidder
          /\ auctions[result.id].price = b2.price

\* C5: for an ended auction, winner = "" iff price = 0 iff EndAuction found no FullBid.
C5_NoWinnerIffNoBids ==
    \A id \in AuctionIDs :
        (auctions[id] # Nil /\ auctions[id].status = "ended") =>
            /\ (auctions[id].winner = "") <=> (auctions[id].price = 0)
            /\ (auctions[id].price = 0) <=> (endSeen[id] = 0)

\* an auction ended without bids, and bids stored for it afterwards
C5_Witness ==
    \E id \in AuctionIDs :
        /\ auctions[id] # Nil /\ auctions[id].status = "ended"
        /\ auctions[id].winner = "" /\ auctions[id].price = 0 /\ endSeen[id] = 0
        /\ StoredBids(id) # {}

C7_ResubmitIsNoOp ==
    [][\A c \in Principals, id \in AuctionIDs, tx \in TxIDs :
          (fullbids[<<id, tx>>] # Nil /\ SubmitBid(c, id, tx)) =>
              fullbids'[<<id, tx>>] = fullbids[<<id, tx>>]]_vars

\* C8: a stored FullBid is never changed or deleted.
C8_FullBidImmutable ==
    [][\A k \in BidKeys : fullbids[k] # Nil => fullbids'[k] = fullbids[k]]_vars

\* C9: only SubmitBid writes under the fullbid key space.
C9_OnlySubmitBidWritesFullBids ==
    [][fullbids' # fullbids => result'.op = "SubmitBid"]_vars

\* C10: SubmitBid on a closed or ended auction fails with "auction is not open
\* for bidding" (also past the time limit), on an open auction past its time
\* limit with "auction has already ended"; neither writes a FullBid, and a
\* SubmitBid that succeeds ran on an open auction within its time limit.
C10_SubmitBidNeedsOpenAuction ==
    [][(result'.op = "SubmitBid" /\ auctions[result'.id] # Nil) =>
          LET a == auctions[result'.id] IN
          /\ a.status \in {"closed", "ended"} =>
                /\ result'.err = "auction is not open for bidding"
                /\ fullbids' = fullbids
          /\ (a.status = "open" /\ a.timelimit < now) =>
                /\ result'.err = "auction has already ended"
                /\ fullbids' = fullbids
          /\ result'.err = Ok => (a.status = "open" /\ a.timelimit >= now)]_vars

\* a SubmitBid of a placed bid was refused on a closed auction past its time limit
C10_Witness ==
    /\ result.op = "SubmitBid" /\ result.err = "auction is not open for bidding"
    /\ auctions[result.id].status = "closed"
    /\ auctions[result.id].timelimit < now
    /\ \E tx \in TxIDs : placeholders[<<result.id, tx>>] # Nil
                         /\ placeholders[<<result.id, tx>>].price > 0
                         /\ fullbids[<<result.id, tx>>] = Nil

\* C11: Bid writes a placeholder only when the auction exists, is open and its
\* time limit has not passed; otherwise it fails and writes none.  On success
\* the value returned is the transaction id the placeholder is stored under.
C11_BidNeedsOpenAuction ==
    [][result'.op = "Bid" =>
          LET id == result'.id IN
          IF result'.err = Ok
          THEN /\ auctions[id] # Nil
               /\ auctions[id].status = "open"
               /\ auctions[id].timelimit >= now
               /\ placeholders[<<id, result'.ret>>] = Nil
               /\ placeholders'[<<id, result'.ret>>] # Nil
               /\ \A k \in BidKeys \ {<<id, result'.ret>>} : placeholders'[k] = placeholders[k]
          ELSE placeholders' = placeholders]_vars

\* the authorization errors of EndAuction (bitAuction, chaincode-go) and CloseAuction
NotSellerErrs ==
    {"Auction can only be ended by the seller", "auction can only be ended by seller",
     "auction can only be closed by seller"}

\* C12: EndAuction on an auction whose time limit has not yet passed fails with
\* "Cannot end auction before time limit has passed" (a caller who is not the
\* seller gets the authorization error instead) and leaves the record unchanged.
C12_EndAuctionBeforeTimeLimitFails ==
    [][(result'.op = "EndAuction" /\ auctions[result'.id] # Nil
          /\ auctions[result'.id].timelimit > now) =>
             /\ result'.err \in {"Cannot end auction before time limit has passed"} \cup NotSellerErrs
             /\ auctions' = auctions]_vars

\* C13: EndAuction and CloseAuction called by a principal other than the stored
\* seller fail with an authorization error and leave the auction record
\* unchanged; a step that takes an auction out of the open state is an
\* EndAuction or a CloseAuction called by its stored seller.
C13_OnlySellerEndsOrCloses ==
    [][\A id \in AuctionIDs :
          auctions[id] # Nil =>
              /\ \A c \in Principals \ {auctions[id].seller} :
                    (EndAuction(c, id) \/ CloseAuction(c, id)) =>
                        /\ result'.err \in NotSellerErrs
                        /\ auctions' = auctions
              /\ (auctions[id].status = "open" /\ auctions'[id].status # "open") =>
                    (EndAuction(auctions[id].seller, id) \/ CloseAuction(auctions[id].seller, id))]_vars

\* a principal other than the seller was refused on an open auction whose
\* time limit has passed, which the seller could have ended or closed
C13_Witness ==
    /\ result.op \in {"EndAuction", "CloseAuction"}
    /\ result.err \in NotSellerErrs
    /\ auctions[result.id] # Nil
    /\ auctions[result.id].status = "open"
    /\ auctions[result.id].timelimit <= now

\* C14: EndAuction on an auction whose status is ended fails with "auction has
\* already been ended" (a caller who is not the seller gets the authorization
\* error instead) and leaves status, winner and price unchanged.
C14_EndedAuctionNotEndedAgain ==
    [][(result'.op = "EndAuction" /\ auctions[result'.id] # Nil
          /\ auctions[result'.id].status = "ended") =>
             /\ result'.err \in {"auction has already been ended"} \cup NotSellerErrs
             /\ auctions' = auctions]_vars

C16_CloseNeedsOpenAuction ==
    [][(result'.op = "CloseAuction" /\ auctions[result'.id] # Nil
          /\ auctions[result'.id].status \in {"closed", "ended"}) =>
             /\ result'.err \in {"cannot close auction that is not open"} \cup NotSellerErrs
             /\ \A c \in Principals :
                   (c = auctions[result'.id].seller /\ CloseAuction(c, result'.id)) =>
                       result'.err = "cannot close auction that is not open"
             /\ auctions' = auctions]_vars

\* the seller was refused the close of an ended auction, which keeps its winner
C16_Witness ==
    /\ result.op = "CloseAuction"
    /\ result.err = "cannot close auction that is not open"
    /\ auctions[result.id].status = "ended"
    /\ auctions[result.id].winner # ""

\* C17: CloseAuction called by the seller on an open auction whose time limit
\* has not yet passed fails with "cannot close auction before time limit has
\* passed" and the auction stays open.
C17_CloseBeforeTimeLimitFails ==
    [][\A id \in AuctionIDs :
          (auctions[id] # Nil /\ auctions[id].status = "open" /\ auctions[id].timelimit > now
             /\ CloseAuction(auctions[id].seller, id)) =>
                /\ result'.err = "cannot close auction before time limit has passed"
                /\ auctions'[id].status = "open"]_vars

\* C18: once a timestamp is stored for a request id, a GetTimeNtp invocation
\* for that id returns the stored string, queries no time source and leaves
\* the stored state unchanged; the string is the one an earlier invocation
\* returned.
C18_CachedAnswerIsReturned ==
    [][\A k \in CallSlots :
          /\ (calls[k] = Idle /\ calls'[k] # Idle /\ timeState[calls'[k].id] # Nil) =>
                /\ calls'[k].pc = "endorsed"
                /\ calls'[k].value = timeState[calls'[k].id]
                /\ ~calls'[k].queried /\ ~calls'[k].wrote
          /\ (calls[k] # Idle /\ calls[k].pc = "endorsed" /\ ~calls[k].wrote /\ calls'[k] = Idle) =>
                /\ lastCall'.err = Ok
                /\ lastCall'.value = timeState[calls[k].id]
                /\ ~lastCall'.queried
                /\ <<calls[k].id, lastCall'.value>> \in answers
                /\ UNCHANGED <<timeState, writes>>]_vars

\* an invocation has just answered from the stored timestamp, without a query
C18_Witness ==
    /\ lastCall.err = Ok /\ lastCall.value # Nil /\ ~lastCall.queried
    /\ lastCall.value = timeState[lastCall.id]
    /\ writes[lastCall.id] = 1

\* C19: the timestamp of a request id is written at most once and never
\* replaced, whatever the interleaving of the invocations, and every
\* invocation that commits returned the stored value.
C19_TimeRecordWriteOnce ==
    /\ [](\A id \in RequestIDs : writes[id] <= 1)
    /\ [](\A a \in answers : timeState[a[1]] = a[2])
    /\ [][\A id \in RequestIDs : timeState[id] # Nil => timeState'[id] = timeState[id]]_vars

\* two first invocations for one id both found no timestamp and chose
\* different ones; the second to commit has just been refused
C19_Witness ==
    /\ lastCall.err = "MVCC_READ_CONFLICT" /\ lastCall.queried
    /\ timeState[lastCall.id] # Nil
    /\ lastCall.value # timeState[lastCall.id]
    /\ writes[lastCall.id] = 1

\* C20: an invocation whose every time source fails returns the error and
\* writes nothing; an invocation succeeds after its queries only when a source
\* answered, and its commit stores the timestamp, also for an id whose earlier
\* invocation failed.
C20_AllSourcesFailNoEntry ==
    [][\A k \in CallSlots :
          (calls[k] # Idle) =>
             /\ (calls[k].pc = "query" /\ calls'[k] = Idle) =>
                   /\ lastCall'.err = NtpFailed /\ lastCall'.value = Nil
                   /\ UNCHANGED <<timeState, writes, answers>>
             /\ (calls[k].pc = "query" /\ calls'[k] # Idle /\ calls'[k].pc = "endorsed") =>
                   /\ calls'[k].heard /\ calls'[k].wrote /\ calls'[k].value # Nil
             /\ (calls[k].pc = "endorsed" /\ calls[k].wrote /\ ~calls[k].stale /\ calls'[k] = Idle) =>
                   /\ lastCall'.err = Ok
                   /\ timeState'[calls[k].id] = calls[k].value]_vars

\* an id whose invocation failed for want of a source now has a timestamp,
\* stored by the invocation that has just committed
C20_Witness ==
    /\ lastCall.id \in failures
    /\ lastCall.err = Ok /\ lastCall.queried
    /\ timeState[lastCall.id] = lastCall.value
    /\ lastCall.value # Nil

\* the lists holding the elements of q in another order
Reorderings(q) ==
    {[i \in 1..Len(q) |-> q[p[i]]] :
        p \in {f \in [1..Len(q) -> 1..Len(q)] : \A a, b \in 1..Len(q) : f[a] = f[b] => a = b}}

\* C21: when no timestamp is stored, the timestamp GetTimeNtp selects depends
\* only on the request id and the successful results: the same results in any
\* order of completion, with any value of the random generator, give the
\* timestamp selected.
C21_SelectionIsFunctionOfIdAndResults ==
    [][(fanPc = "select" /\ fanPc' = "returned" /\ Len(times) > 0) =>
          \A q \in Reorderings(times) : \A r \in 1..Len(q) :
              FormatTime(GoStringLayout, accurateTime(q, r)) = fanRet'.value]_vars

\* C22: ntpQueryLoop starts one task per server and collects nothing and
\* returns nothing before every task has finished; a task that is running is
\* stopped by nothing but its own result, and the list returned holds the time
\* of every task that succeeded.
C22_FanOutIsFullBarrier ==
    /\ [](fanPc # "spawn" => \A s \in NTPs : tasks[s].pc # "none")
    /\ [](fanPc \in {"collect", "select", "returned"} => \A s \in NTPs : tasks[s].pc = "done")
    /\ [](fanPc \in {"spawn", "wait"} => times = <<>> /\ fanRet = Nil)
    /\ [](fanPc \in {"select", "returned"} =>
             /\ Len(times) = Cardinality({s \in NTPs : tasks[s].ok})
             /\ \A s \in NTPs : tasks[s].ok => \E i \in 1..Len(times) : times[i] = tasks[s].time)
    /\ [][\A s \in NTPs :
             tasks[s].pc = "running" =>
                \/ tasks'[s] = tasks[s]
                \/ /\ tasks'[s].pc = "sent"
                   /\ resultCh' = Append(resultCh, [server |-> s, ok |-> tasks'[s].ok,
                                                    time |-> tasks'[s].time])]_vars

\* both servers answered, with different times, and the invocation returned
\* the time of the one that answered last
C22_Witness ==
    /\ fanPc = "returned" /\ fanRet.err = Ok
    /\ Len(times) = MaxServers
    /\ times[1] # times[Len(times)]
    /\ fanRet.value = FormatTime(GoStringLayout, times[Len(times)])

\* the txID argument of SubmitBid as the request id GetTimeNtp is called with
RequestIdOf(tx) == IF tx = 1 THEN "tx001" ELSE "tx002"

\* C23: the timestamp of the FullBid a successful SubmitBid(auctionID, txID)
\* writes is the one the timeoracle chaincode holds for that txID.
C23_FullBidCarriesOracleTime ==
    [][\A k \in BidKeys :
          (result'.op = "SubmitBid" /\ result'.err = Ok /\ fullbids'[k] # Nil
             /\ fullbids'[k] # fullbids[k]) =>
                /\ timeState'[RequestIdOf(k[2])] # Nil
                /\ ParseTime(GoStringLayout, timeState'[RequestIdOf(k[2])]).ok
                /\ ParseTime(GoStringLayout, timeState'[RequestIdOf(k[2])]).t
                      = fullbids'[k].timestamp]_vars

\* C24: for every auction, at most one FullBid of each organization of the
\* callers has valid = true.
C24_OneValidBidPerOrg ==
    \A id \in AuctionIDs, c \in Principals :
        Cardinality({tx \in FullBidTxs(fullbids, id) :
                        fullbids[<<id, tx>>].org = GetMSPID(c) /\ fullbids[<<id, tx>>].valid}) <= 1

\* C25: a placeholder is revealed at most once: a SubmitBid on a placeholder
\* whose FullBid a SubmitBid has already stored fails.
C25_PlaceholderConsumedOnce ==
    [][\A c \in Principals, id \in AuctionIDs, tx \in TxIDs :
          (placeholders[<<id, tx>>] # Nil /\ fullbids[<<id, tx>>] # Nil /\ SubmitBid(c, id, tx)) =>
              result'.err # Ok]_vars

\* C26: every stored FullBid has price > 0: a SubmitBid on a placeholder whose
\* price is <= 0 fails (with "invalid bid amount" when the auction is open and
\* within its time limit) and writes no FullBid, although Bid stored the
\* placeholder.
C26_FullBidPricePositive ==
    /\ [](\A k \in BidKeys : fullbids[k] # Nil => fullbids[k].price > 0)
    /\ [][\A c \in Principals, id \in AuctionIDs, tx \in TxIDs :
             (placeholders[<<id, tx>>] # Nil /\ placeholders[<<id, tx>>].price <= 0
                /\ SubmitBid(c, id, tx)) =>
                   /\ result'.err # Ok
                   /\ fullbids' = fullbids
                   /\ (auctions[id] # Nil /\ isAuctionOpenForBidding(auctions[id]) = Ok) =>
                         result'.err = "invalid bid amount"]_vars

\* Bid stored a placeholder of price 0 and its SubmitBid has just been refused
C26_Witness ==
    /\ result.op = "SubmitBid" /\ result.err = "invalid bid amount"
    /\ \E tx \in TxIDs :
          /\ placeholders[<<result.id, tx>>] # Nil
          /\ placeholders[<<result.id, tx>>].price = 0
          /\ fullbids[<<result.id, tx>>] = Nil
    /\ \A tx \in TxIDs :
          placeholders[<<result.id, tx>>] # Nil => placeholders[<<result.id, tx>>].price = 0

\* C27: a SubmitBid(auctionID, txID) with no placeholder stored under
\* (auctionID, txID) fails and writes no FullBid, with "bid not found in public
\* state" when the auction exists and is open for bidding; so it is for the
\* transaction id of a placeholder of another auction.
C27_SubmitBidNeedsOwnPlaceholder ==
    [][\A c \in Principals, id \in AuctionIDs, tx \in TxIDs :
          (placeholders[<<id, tx>>] = Nil /\ SubmitBid(c, id, tx)) =>
              /\ result'.err # Ok
              /\ fullbids' = fullbids
              /\ (auctions[id] # Nil /\ isAuctionOpenForBidding(auctions[id]) = Ok) =>
                    result'.err = "bid not found in public state"]_vars

\* every transaction id names a valid placeholder of one auction, and a
\* SubmitBid on the other auction, open, has just been refused: no FullBid
C27_Witness ==
    /\ result.op = "SubmitBid" /\ result.err = "bid not found in public state"
    /\ \E a \in AuctionIDs \ {result.id} :
          /\ auctions[a] # Nil /\ isAuctionOpenForBidding(auctions[a]) = Ok
          /\ \A tx \in TxIDs :
                /\ placeholders[<<a, tx>>] # Nil /\ placeholders[<<a, tx>>].price > 0
                /\ placeholders[<<result.id, tx>>] = Nil
                /\ fullbids[<<result.id, tx>>] = Nil

\* C28: CreateAuction with a well-formed RFC3339Nano time limit stores, under
\* the auction id, a record with seller the caller, status open, winner "",
\* price 0, no bids and the time limit parsed; with a malformed time limit it
\* fails with "invalid datetime format" and writes nothing.
C28_CreateAuctionStoresOpenAuction ==
    [][\A c \in Principals, id \in AuctionIDs, tl \in TimelimitInputs :
          CreateAuction(c, id, tl) =>
              IF tl.fmt = RFC3339Nano
              THEN /\ result'.err = Ok
                   /\ auctions'[id] # Nil
                   /\ auctions'[id].auctionID = id
                   /\ auctions'[id].seller = c
                   /\ auctions'[id].status = "open"
                   /\ auctions'[id].winner = ""
                   /\ auctions'[id].price = 0
                   /\ auctions'[id].bids = <<>>
                   /\ auctions'[id].timelimit = tl.utc
                   /\ \A a \in AuctionIDs \ {id} : auctions'[a] = auctions[a]
                   /\ UNCHANGED <<placeholders, fullbids>>
              ELSE /\ result'.err = "invalid datetime format"
                   /\ UNCHANGED <<auctions, policy, placeholders, fullbids>>]_vars

\* user2 has just created the auction, some time after the start: the record
\* is open, without winner, and Org2MSP is its endorser
C28_Witness ==
    /\ result.op = "CreateAuction" /\ result.err = Ok
    /\ auctions[result.id] # Nil
    /\ auctions[result.id].seller = "user2"
    /\ auctions[result.id].status = "open"
    /\ auctions[result.id].winner = "" /\ auctions[result.id].price = 0
    /\ policy[result.id] = "Org2MSP"
    /\ now > 0

\* the operations of the auction contract that write
AuctionOps == {"CreateAuction", "Bid", "SubmitBid", "EndAuction", "CloseAuction"}

QueryOps == {"QueryAuction", "QueryBid", "GetHb", "GetAllOpenAuctions", "GetAllAuctionsBySeller"}

\* C30: QueryAuction, QueryBid, GetHb, GetAllOpenAuctions and
\* GetAllAuctionsBySeller change nothing on the ledger; QueryBid returns a bid
\* only to a caller of the peer's organization who is the bidder of that bid,
\* and any other caller gets an error and no bid.
C30_QueriesReadOnlyBidToOwnerOnly ==
    [][result'.op \in QueryOps =>
          /\ UNCHANGED <<auctions, policy, placeholders, fullbids, usedTx, now, endSeen>>
          /\ result'.op = "QueryBid" =>
                /\ IF result'.val # Nil
                   THEN /\ result'.err = Ok
                        /\ GetMSPID(result'.caller) = result'.peer
                        /\ result'.val.bidder = result'.caller
                   ELSE result'.err # Ok
                /\ GetMSPID(result'.caller) # result'.peer =>
                      (result'.err # Ok /\ result'.val = Nil)
                /\ (fullbids[<<result'.id, result'.tx>>] # Nil
                      /\ fullbids[<<result'.id, result'.tx>>].bidder # result'.caller) =>
                         (result'.err # Ok /\ result'.val = Nil)]_vars

\* a caller of the peer's organization asked for the revealed bid of another
\* bidder and got an error and no bid
C30_Witness ==
    /\ result.op = "QueryBid" /\ result.err # Ok /\ result.val = Nil
    /\ GetMSPID(result.caller) = result.peer
    /\ fullbids[<<result.id, result.tx>>] # Nil
    /\ fullbids[<<result.id, result.tx>>].bidder # result.caller

\* C31: GetHb returns the same bid whatever the order in which the scan
\* yields the FullBids of the auction, bids of equal price and equal timestamp
\* included.
C31_GetHbIndependentOfScanOrder ==
    \A id \in AuctionIDs :
        \A q \in Reorderings(QueryBids(fullbids, id)) : GetHbOf(q) = GetHb(fullbids, id)

\* C32: right after a successful CreateAuction(id, ...) the auction id has no
\* revealed bid: GetHb(id) returns none, also when FullBids were stored under
\* the id for an earlier auction.
C32_NewAuctionHasNoBids ==
    [][\A c \in Principals, id \in AuctionIDs, tl \in TimelimitInputs :
          (CreateAuction(c, id, tl) /\ result'.err = Ok) => GetHb(fullbids', id) = Nil]_vars

\* C33: an invocation that finds no stored timestamp and has at least one
\* server answering succeeds, however many of the others failed; the timestamp
\* returned is the time of one of the servers that answered, and that same
\* text is what it puts under the request id.
C33_OneSourceIsEnough ==
    (fanPc = "returned" /\ \E s \in NTPs : tasks[s].ok) =>
        /\ fanRet.err = Ok
        /\ \E s \in NTPs : tasks[s].ok /\ fanRet.value = FormatTime(GoStringLayout, tasks[s].time)
        /\ fanRet.put = <<fanId, fanRet.value>>

\* the first server alone answered, the others failed, and the invocation
\* returned and put the time of that server
C33_Witness ==
    /\ fanPc = "returned" /\ fanRet.err = Ok
    /\ Cardinality({s \in NTPs : tasks[s].ok}) = 1
    /\ \E s \in NTPs :
          /\ tasks[s].ok
          /\ fanRet.put = <<fanId, FormatTime(GoStringLayout, tasks[s].time)>>
          /\ s = 1

\* the servers whose task has sent its result
SentTasks == {s \in NTPs : tasks[s].pc \in {"sent", "done"}}

\* C34: ntpQueryLoop terminates for every mix of outcomes: each task sends one
\* result and signals completion once, no send finds the channel full, the
\* results collected (successes and failures) are as many as the servers, and
\* an invocation that starts its queries returns.
C34_FanOutTerminates ==
    /\ [](wg = Cardinality({s \in NTPs : tasks[s].pc \in {"running", "sent"}}))
    /\ [](Len(resultCh) + Len(times) + Len(failedServers) = Cardinality(SentTasks))
    /\ [](\A i, j \in 1..Len(resultCh) : resultCh[i].server = resultCh[j].server => i = j)
    /\ [](\A s \in NTPs : tasks[s].pc = "running" => Len(resultCh) < resultChCap)
    /\ [](fanPc \in {"select", "returned"} =>
             Len(times) + Len(failedServers) = Cardinality(NTPs))
    /\ ((fanPc = "spawn") ~> (fanPc = "returned"))

\* the loop has returned with successes and failures mixed, the channel
\* having been full before the first receive
C34_Witness ==
    /\ fanPc = "returned"
    /\ Len(times) > 0 /\ Len(failedServers) > 0
    /\ Len(times) + Len(failedServers) = Cardinality(NTPs)
    /\ wg = 0 /\ resultCh = <<>>

\* C35: on an open auction, at no instant are both a bid (Bid, SubmitBid) and
\* the seller's EndAuction accepted, the instant of the time limit included.
C35_BiddingAndEndingDisjoint ==
    \A id \in AuctionIDs :
        (auctions[id] # Nil /\ auctions[id].status = "open") =>
            ~(/\ isAuctionOpenForBidding(auctions[id]) = Ok
              /\ EndAuctionErr(auctions[id].seller, id) = Ok)

\* C36: the bidder and the org of a FullBid revealed from a placeholder are
\* those of the principal whose Bid created the placeholder.
C36_FullBidBelongsToPlacer ==
    \A k \in BidKeys :
        (placeholders[k] # Nil /\ fullbids[k] # Nil) =>
            /\ fullbids[k].bidder = placedBy[k[2]]
            /\ fullbids[k].org = GetMSPID(placedBy[k[2]])

\* C37: the seller stored for an auction id never changes once the auction
\* has been created, whatever operation runs.
C37_SellerNeverChanges ==
    [][\A id \in AuctionIDs :
          auctions[id] # Nil =>
              /\ auctions'[id] # Nil
              /\ auctions'[id].seller = auctions[id].seller]_vars

\* C38: when Bid returns a transaction id and no error, the placeholder is
\* stored under (auctionID, that id).
C38_BidIdMeansPlaceholderStored ==
    [][(result'.op = "Bid" /\ result'.err = Ok) =>
          placeholders'[<<result'.id, result'.ret>>] # Nil]_vars

\* C39: on an auction that is open or closed and whose time limit has passed,
\* the seller's EndAuction succeeds and the auction is ended, whether or not
\* bids have been revealed.
C39_SellerCanAlwaysEnd ==
    [][(/\ result'.op = "EndAuction"
        /\ auctions[result'.id] # Nil
        /\ auctions[result'.id].status \in {"open", "closed"}
        /\ auctions[result'.id].timelimit < now
        /\ result'.err \notin NotSellerErrs) =>
           /\ result'.err = Ok
           /\ auctions'[result'.id].status = "ended"]_vars

====
